---- MODULE Spec2Model ----
(***************************************************************************)
(* A model of gaphor's copy/paste engine (gaphor/diagram/copypaste.py)     *)
(* and of its change-set comparison (gaphor/core/changeset/compare.py).    *)
(*                                                                         *)
(* A store (ElementFactory) is a function from identifiers to nodes.  A    *)
(* node is an element, a diagram or a presentation; it carries three       *)
(* scalar properties (name: str, count: int, flag: bool), a single         *)
(* reference (ref), an ordered collection of references (coll) and, for a  *)
(* presentation, subject / diagram / parent / children.                    *)
(* Identifier 0 stands for Python's None.                                  *)
(***************************************************************************)
EXTENDS Integers, Sequences, FiniteSets, TLC

\* the copy/paste engine: the model store, the id the next created node
\* gets, the CopyData last copied, what the last copy_full and the last
\* paste did, and the number of edits applied to the store
VARIABLES store, nextId, clipboard, copied, pasted, edits
\* the comparison: the ancestor, incoming and current stores, what the last
\* compare did, and the number of edits that made incoming differ
VARIABLES ancestor, incoming, current, compared, changes
\* the transport: two values handed to serialize, their payloads, and what
\* deserialize made of the first payload
VARIABLE wire

pasteVars == <<store, nextId, clipboard, copied, pasted, edits>>
diffVars == <<ancestor, incoming, current, compared, changes>>
vars == <<store, nextId, clipboard, copied, pasted, edits,
          ancestor, incoming, current, compared, changes, wire>>

----------------------------------------------------------------------------
(* Bounds of the model *)

\* how many environment edits are applied to the initial store
MaxEdits == 2
\* how many items one copy_full call is given
MaxItems == 2
\* depth of nested copy() calls after which Python raises RecursionError;
\* larger than the deepest acyclic chain of the stores explored here
MaxDepth == 6
\* how many edits make incoming differ from its ancestor
MaxChanges == 2

----------------------------------------------------------------------------
(* Scalar values and property values *)

NoneV == [t |-> "none", s |-> "", n |-> 0]
StrV(x) == [t |-> "str", s |-> x, n |-> 0]
IntV(k) == [t |-> "int", s |-> "", n |-> k]
BoolV(b) == [t |-> "bool", s |-> "", n |-> IF b THEN 1 ELSE 0]

\* what save() hands to its callback: a scalar, a Base or a collection
Scalar(v) == [k |-> "scalar", v |-> v, id |-> 0, ids |-> <<>>]
RefTo(i) == [k |-> "ref", v |-> NoneV, id |-> i, ids |-> <<>>]
Coll(xs) == [k |-> "coll", v |-> NoneV, id |-> 0, ids |-> xs]

\* the unlimited token of an UnlimitedNatural property: the str "*"
Unlimited == StrV("*")

\* Python's str() of a scalar
PyStr(v) ==
  CASE v.t = "str" -> v.s
    [] v.t = "int" -> ToString(v.n)
    [] v.t = "bool" -> (IF v.n = 1 THEN "True" ELSE "False")
    [] OTHER -> "None"

\* Python's == on scalars (bool is an int; None equals only None)
PyEq(a, b) ==
  CASE a.t = "none" \/ b.t = "none" -> a.t = b.t
    [] a.t = "str" \/ b.t = "str" -> a.t = b.t /\ a.s = b.s
    [] OTHER -> a.n = b.n

----------------------------------------------------------------------------
(* Sequences used as insertion-ordered dicts and as sets *)

Range(f) == {f[i] : i \in DOMAIN f}

RECURSIVE SeqOfSet(_)
SeqOfSet(S) ==
  IF S = {} THEN <<>>
  ELSE LET m == CHOOSE x \in S : \A y \in S : x <= y
       IN <<m>> \o SeqOfSet(S \ {m})

DictKeys(d) == [i \in DOMAIN d |-> d[i].key]
DictHas(d, k) == \E i \in DOMAIN d : d[i].key = k
DictGet(d, k) == d[CHOOSE i \in DOMAIN d : d[i].key = k].val
\* d[k] = v: a present key keeps its place, a new key goes last
DictSet(d, k, v) ==
  IF DictHas(d, k)
  THEN [i \in DOMAIN d |-> IF d[i].key = k THEN [key |-> k, val |-> v] ELSE d[i]]
  ELSE Append(d, [key |-> k, val |-> v])

RECURSIVE DictFromPairs(_, _)
DictFromPairs(d, ps) ==
  IF ps = <<>> THEN d
  ELSE DictFromPairs(DictSet(d, Head(ps).key, Head(ps).val), Tail(ps))

----------------------------------------------------------------------------
(* The node model: Base, Diagram, Presentation and the ElementFactory *)

KindOf(cls) ==
  CASE cls = "Diagram" -> "diagram"
    [] cls = "Item" -> "presentation"
    [] OTHER -> "element"

NewNode(cls) ==
  [cls |-> cls, kind |-> KindOf(cls),
   name |-> NoneV, count |-> NoneV, flag |-> NoneV,
   ref |-> 0, coll |-> <<>>,
   subject |-> 0, diagram |-> 0, parent |-> 0, children |-> <<>>,
   owner |-> 0]

IsPresentation(st, i) == i \in DOMAIN st /\ st[i].kind = "presentation"
IsDiagram(st, i) == i \in DOMAIN st /\ st[i].kind = "diagram"

\* ElementFactory.lookup
ModelLookup(st, i) == IF i \in DOMAIN st THEN i ELSE 0

\* Diagram.ownedPresentation, in creation order
OwnedPresentation(st, d) ==
  SeqOfSet({i \in DOMAIN st : st[i].kind = "presentation" /\ st[i].diagram = d})

\* Diagram.lookup: a presentation of this diagram, by id
DiagramLookup(st, d, i) ==
  IF i \in DOMAIN st /\ st[i].kind = "presentation" /\ st[i].diagram = d
  THEN i ELSE 0

\* Element.presentation: the presentations whose subject is this node
PresentationsOf(st, e) ==
  SeqOfSet({i \in DOMAIN st : st[i].kind = "presentation" /\ st[i].subject = e})

\* owner(): a presentation is owned by its diagram, another node by its owner
owner(st, i) ==
  IF st[i].kind = "presentation" THEN st[i].diagram ELSE st[i].owner

\* owns(): the nodes this node structurally contains
owns(st, e) == SeqOfSet({i \in DOMAIN st : owner(st, i) = e})

ScalarProp(nm, v) == IF v.t = "none" THEN <<>> ELSE <<[name |-> nm, val |-> Scalar(v)]>>
RefProp(nm, i) == IF i = 0 THEN <<>> ELSE <<[name |-> nm, val |-> RefTo(i)]>>
CollProp(nm, xs) == IF xs = <<>> THEN <<>> ELSE <<[name |-> nm, val |-> Coll(xs)]>>

\* Base.save(save_func): the calls save_func(name, value), in order; a
\* property that is unset (None, empty collection) is not reported
Save(st, i) ==
     ScalarProp("name", st[i].name) \o ScalarProp("count", st[i].count)
  \o ScalarProp("flag", st[i].flag)
  \o RefProp("ref", st[i].ref) \o CollProp("coll", st[i].coll)
  \o (IF st[i].kind = "presentation"
      THEN RefProp("subject", st[i].subject) \o RefProp("diagram", st[i].diagram)
           \o RefProp("parent", st[i].parent) \o CollProp("children", st[i].children)
      ELSE CollProp("presentation", PresentationsOf(st, i)))
  \o (IF st[i].kind = "diagram"
      THEN CollProp("ownedPresentation", OwnedPresentation(st, i))
      ELSE <<>>)

Elements(st) == {i \in DOMAIN st : st[i].kind = "element"}
Diagrams(st) == {i \in DOMAIN st : st[i].kind = "diagram"}
Presentations(st) == {i \in DOMAIN st : st[i].kind = "presentation"}

----------------------------------------------------------------------------
(* serialize / copy *)

SerV(s) == [tag |-> "v", s |-> s, id |-> 0, items |-> <<>>]
SerR(i) == [tag |-> "r", s |-> "", id |-> i, items |-> <<>>]
SerC(xs) == [tag |-> "c", s |-> "", id |-> 0, items |-> xs]

serialize(value) ==
  IF value.k = "ref" THEN SerR(value.id)
  ELSE IF value.k = "coll"
  THEN SerC([j \in DOMAIN value.ids |-> SerR(value.ids[j])])
  ELSE LET v == IF value.v.t = "bool" THEN IntV(value.v.n) ELSE value.v
       IN SerV(PyStr(v))

\* save_func(name, value) of copy_base_data, for the properties it keeps
save_func(keep) ==
  [j \in DOMAIN keep |-> [key |-> keep[j].name, val |-> serialize(keep[j].val)]]

copy_base_data(st, i, blacklist) ==
  save_func(SelectSeq(Save(st, i), LAMBDA p : p.name \notin blacklist))

BaseCopy(cls, i, data) ==
  [rec |-> "BaseCopy", cls |-> cls, id |-> i, data |-> data,
   diagram |-> 0, parent |-> 0]
PresentationCopy(cls, data, d, p) ==
  [rec |-> "PresentationCopy", cls |-> cls, id |-> 0, data |-> data,
   diagram |-> d, parent |-> p]

copy_element(st, i, blacklist) ==
  BaseCopy(st[i].cls, i, copy_base_data(st, i, blacklist \cup {"presentation"}))

copy_presentation(st, i) ==
  PresentationCopy(st[i].cls,
                   copy_base_data(st, i, {"diagram", "parent", "children"}),
                   st[i].diagram, st[i].parent)

\* what a generator yields: pairs, then all that the generator r yields
yield_from(pairs, r) == [pairs |-> pairs \o r.pairs, err |-> r.err]

\* copy(obj): the (id, data) pairs the generator yields, and whether the
\* nesting of generators exceeded the recursion limit
RECURSIVE copy(_, _, _), copy_each(_, _, _, _)
copy(st, obj, depth) ==
  IF depth > MaxDepth THEN [pairs |-> <<>>, err |-> TRUE]
  ELSE CASE st[obj].kind = "presentation" ->
              IF st[obj].subject # 0
              THEN yield_from(<<[key |-> obj, val |-> copy_presentation(st, obj)]>>,
                              copy(st, st[obj].subject, depth + 1))
              ELSE [pairs |-> <<[key |-> obj, val |-> copy_presentation(st, obj)]>>,
                    err |-> FALSE]
         [] st[obj].kind = "diagram" ->
              yield_from(<<[key |-> obj,
                            val |-> copy_element(st, obj, {"ownedPresentation"})]>>,
                         copy_each(st,
                                   SelectSeq(OwnedPresentation(st, obj),
                                             LAMBDA p : st[p].subject # obj),
                                   depth + 1, [pairs |-> <<>>, err |-> FALSE]))
         [] OTHER ->
              [pairs |-> <<[key |-> obj, val |-> copy_element(st, obj, {})]>>,
               err |-> FALSE]
copy_each(st, objs, depth, acc) ==
  IF objs = <<>> \/ acc.err THEN acc
  ELSE copy_each(st, Tail(objs), depth,
                 yield_from(acc.pairs, copy(st, Head(objs), depth)))

\* copy_full's nested copy_owned(e); acc carries the bundle being built,
\* the number of copy_owned calls made and whether copy() overflowed
RECURSIVE copy_owned(_, _, _), owned_each(_, _, _, _), owned_copy(_, _, _, _),
          owned_pairs(_, _, _, _)
copy_owned(st, acc, e) ==
  owned_each(st, [acc EXCEPT !.calls = @ + 1], e, owns(st, e))
\* for o in owns(e): if owner(o) is e
owned_each(st, acc, e, os) ==
  IF os = <<>> \/ acc.err THEN acc
  ELSE owned_each(st,
                  IF owner(st, Head(os)) # e THEN acc
                  ELSE owned_copy(st, acc, Head(os), copy(st, Head(os), 0)),
                  e, Tail(os))
\* for ref, data in copy(o), r being what copy(o) yields
owned_copy(st, acc, o, r) ==
  IF r.err THEN [acc EXCEPT !.err = TRUE] ELSE owned_pairs(st, acc, o, r.pairs)
\* if ref not in elements: elements[ref] = data; copy_owned(o)
owned_pairs(st, acc, o, ps) ==
  IF ps = <<>> \/ acc.err THEN acc
  ELSE owned_pairs(st,
                   IF DictHas(acc.elements, Head(ps).key) THEN acc
                   ELSE copy_owned(st,
                          [acc EXCEPT !.elements =
                                        DictSet(@, Head(ps).key, Head(ps).val)],
                          o),
                   o, Tail(ps))

RECURSIVE expand_each(_, _, _)
\* for ref in list(elements.keys()): if element := lookup(ref)
expand_each(st, acc, keys) ==
  IF keys = <<>> \/ acc.err THEN acc
  ELSE expand_each(st,
                   IF ModelLookup(st, Head(keys)) # 0
                   THEN copy_owned(st, acc, ModelLookup(st, Head(keys)))
                   ELSE acc,
                   Tail(keys))

\* diagram_refs of copy_full
diagram_refs(st, items) ==
  {st[items[j]].diagram : j \in {k \in DOMAIN items : IsPresentation(st, items[k])}}

\* the CopyData copy_full returns, with the bundle as it was before the
\* ownership expansion (initial) and the number of copy_owned calls
CopyData(initial, refs, done) ==
  [elements |-> done.elements, diagram_refs |-> refs,
   err |-> done.err, calls |-> done.calls, initial |-> initial]

\* copy_full from the bundle of its first line on
copy_full_expand(st, items, useLookup, start) ==
  CopyData(start.elements, diagram_refs(st, items),
           IF useLookup THEN expand_each(st, start, DictKeys(start.elements))
           ELSE start)

\* elements = {ref: data for item in items for ref, data in copy(item)}
copy_items(r) ==
  [elements |-> DictFromPairs(<<>>, r.pairs), calls |-> 0, err |-> r.err]

\* copy_full(items, lookup)
copy_full(st, items, useLookup) ==
  copy_full_expand(st, items, useLookup,
                   copy_items(copy_each(st, items, 0,
                                        [pairs |-> <<>>, err |-> FALSE])))

----------------------------------------------------------------------------
(* deserialize / paste *)

\* the integer a text stands for (int() of the text)
ParseInt(s) == CHOOSE n \in 0..9 : ToString(n) = s

\* Base.load(name, value): a scalar arrives as text and is converted to the
\* property's type; a node is assigned to a single reference and appended
\* to a collection.  Only the loaded node changes.
Load(st, i, nm, value) ==
  CASE nm = "name" -> [st EXCEPT ![i].name = StrV(value.s)]
    [] nm = "count" -> [st EXCEPT ![i].count = IntV(ParseInt(value.s))]
    [] nm = "flag" -> [st EXCEPT ![i].flag = BoolV(ParseInt(value.s) # 0)]
    [] nm = "ref" -> [st EXCEPT ![i].ref = value.id]
    [] nm = "subject" -> [st EXCEPT ![i].subject = value.id]
    [] nm = "coll" ->
         IF value.id \in Range(st[i].coll) THEN st
         ELSE [st EXCEPT ![i].coll = Append(@, value.id)]
    [] OTHER -> st

\* item.parent = p: an assignment, which also updates the opposite end
SetParent(st, i, p) ==
  [st EXCEPT ![i].parent = p, ![p].children = Append(@, i)]

\* _paste's state: the store, the id the next created node gets,
\* new_elements, the calls of postload() and diagram.update() made so far,
\* and whether an exception was raised
PasteStart(st, nid, cd, d) ==
  [store |-> st, nextId |-> nid,
   new |-> [j \in 1..Cardinality(cd.diagram_refs) |->
              [key |-> SeqOfSet(cd.diagram_refs)[j], val |-> d]],
   log |-> <<>>, lookups |-> <<>>, err |-> FALSE]

Logged(ps, ev, i) == [ps EXCEPT !.log = Append(@, [ev |-> ev, id |-> i])]

\* element_lookup's test before the bundle is consulted:
\* not full and looked_up and not isinstance(looked_up, Presentation)
ReuseBeforeBundleNever(full, st, looked_up) == FALSE
ReuseBeforeBundleAlways(full, st, looked_up) ==
  looked_up # 0 /\ ~IsPresentation(st, looked_up)
ReuseBeforeBundleInFull(full, st, looked_up) ==
  full /\ looked_up # 0 /\ ~IsPresentation(st, looked_up)
ReuseBeforeBundle(full, st, looked_up) ==
  ~full /\ looked_up # 0 /\ ~IsPresentation(st, looked_up)

\* element_lookup's test after the bundle was consulted:
\* full and looked_up and not isinstance(looked_up, Presentation)
ReuseAfterBundleNever(full, st, looked_up) == FALSE
ReuseAfterBundle(full, st, looked_up) ==
  full /\ looked_up # 0 /\ ~IsPresentation(st, looked_up)

\* ctx = [cd |-> the CopyData, diagram |-> the target diagram, full |-> mode]
RECURSIVE element_lookup(_, _, _), element_lookup_rules(_, _, _),
          paste(_, _, _), paste_element(_, _, _, _),
          paste_presentation(_, _, _, _), paste_on_diagram(_, _, _, _),
          paste_item(_, _, _, _), load_data(_, _, _, _),
          deserialize_load(_, _, _, _, _), deserialize_each(_, _, _, _, _)

\* new_elements[ref] after the paster p1 ran
pasted_as(p1, ref) ==
  [ps |-> p1, res |-> IF p1.err THEN 0 ELSE DictGet(p1.new, ref)]

\* a call element_lookup(ref) that returned: what it was asked, what
\* new_elements held when it was called, and what it returned (0: None)
returned(r, ref, known) ==
  [ps |-> [r.ps EXCEPT !.lookups = Append(@, [ref |-> ref, known |-> known,
                                              res |-> r.res])],
   res |-> r.res]

element_lookup(ctx, ps, ref) ==
  returned(element_lookup_rules(ctx, ps, ref), ref, Range(DictKeys(ps.new)))

\* the body of element_lookup
element_lookup_rules(ctx, ps, ref) ==
  IF ps.err THEN [ps |-> ps, res |-> 0]
  ELSE IF DictHas(ps.new, ref) THEN [ps |-> ps, res |-> DictGet(ps.new, ref)]
  ELSE IF ReuseBeforeBundle(ctx.full, ps.store, ModelLookup(ps.store, ref))
  THEN [ps |-> ps, res |-> ModelLookup(ps.store, ref)]
  ELSE IF DictHas(ctx.cd.elements, ref)
  THEN pasted_as(paste(ctx, ps, ref), ref)
  ELSE IF ReuseAfterBundle(ctx.full, ps.store, ModelLookup(ps.store, ref))
  THEN [ps |-> ps, res |-> ModelLookup(ps.store, ref)]
  ELSE [ps |-> ps, res |-> DiagramLookup(ps.store, ctx.diagram, ref)]

\* paste(copy_data.elements[ref], diagram, element_lookup), both steps of
\* the generator, with new_elements[ref] set between them
paste(ctx, ps, ref) ==
  IF DictGet(ctx.cd.elements, ref).rec = "PresentationCopy"
  THEN paste_presentation(ctx, ps, ref, DictGet(ctx.cd.elements, ref))
  ELSE paste_element(ctx, ps, ref, DictGet(ctx.cd.elements, ref))

\* element = diagram.model.create(cls); yield element
created_element_twice(ps, ref, cls) ==
  [ps EXCEPT !.store = @ @@ (ps.nextId :> NewNode(cls))
                         @@ (ps.nextId + 1 :> NewNode(cls)),
             !.nextId = @ + 2,
             !.new = DictSet(@, ref, ps.nextId)]
created_element(ps, ref, cls) ==
  [ps EXCEPT !.store = @ @@ (ps.nextId :> NewNode(cls)),
             !.nextId = @ + 1,
             !.new = DictSet(@, ref, ps.nextId)]

\* element.postload(), reached unless an exception was raised
postloaded(loaded, element) ==
  IF loaded.err THEN loaded ELSE Logged(loaded, "postload", element)

paste_element(ctx, ps, ref, copy_data) ==
  postloaded(load_data(ctx, created_element(ps, ref, copy_data.cls), ps.nextId,
                       copy_data.data),
             ps.nextId)

\* item = diagram.create(cls); yield item
created_item(ps, ref, cls, diagram) ==
  [ps EXCEPT !.store = @ @@ (ps.nextId :> [NewNode(cls) EXCEPT !.diagram = diagram]),
             !.nextId = @ + 1,
             !.new = DictSet(@, ref, ps.nextId)]

\* if p := lookup(parent): item.parent = p
without_parent(pl, item) == pl.ps
with_parent(pl, item) ==
  IF pl.res # 0 THEN [pl.ps EXCEPT !.store = SetParent(@, item, pl.res)] ELSE pl.ps

\* diagram.update({item}), reached unless an exception was raised
updated(loaded, item) ==
  IF loaded.err THEN loaded ELSE Logged(loaded, "update", item)

\* diagram = lookup(diagram_ref), before the item exists and is memoized
paste_presentation(ctx, ps, ref, copy_data) ==
  paste_on_diagram(ctx, element_lookup(ctx, ps, copy_data.diagram), ref, copy_data)

\* diagram.create(cls) fails on a diagram that is None
paste_on_diagram(ctx, dl, ref, copy_data) ==
  IF dl.ps.err THEN dl.ps
  ELSE IF dl.res = 0 THEN [dl.ps EXCEPT !.err = TRUE]
  ELSE paste_item(ctx, created_item(dl.ps, ref, copy_data.cls, dl.res),
                  dl.ps.nextId, copy_data)

\* the second step of _paste_presentation
paste_item(ctx, created, item, copy_data) ==
  updated(load_data(ctx,
                    with_parent(IF copy_data.parent # 0
                                THEN element_lookup(ctx, created, copy_data.parent)
                                ELSE [ps |-> created, res |-> 0],
                                item),
                    item, copy_data.data),
          item)

load_data(ctx, ps, i, data) ==
  IF data = <<>> \/ ps.err THEN ps
  ELSE load_data(ctx, deserialize_load(ctx, ps, i, Head(data).key, Head(data).val),
                 i, Tail(data))

\* element.load(name, e) for the e that lookup(value) gave, if any
load_ref_or_raise(r, i, nm) ==
  IF r.res # 0 /\ ~r.ps.err
  THEN [r.ps EXCEPT !.store = Load(@, i, nm, RefTo(r.res))]
  ELSE [r.ps EXCEPT !.err = TRUE]
load_ref(r, i, nm) ==
  IF r.res # 0 /\ ~r.ps.err
  THEN [r.ps EXCEPT !.store = Load(@, i, nm, RefTo(r.res))]
  ELSE r.ps

\* for value in deserialize(ser, lookup): element.load(name, value)
deserialize_load(ctx, ps, i, nm, ser) ==
  CASE ser.tag = "r" -> load_ref(element_lookup(ctx, ps, ser.id), i, nm)
    [] ser.tag = "c" -> deserialize_each(ctx, ps, i, nm, ser.items)
    [] ser.tag = "v" -> [ps EXCEPT !.store = Load(@, i, nm, ser)]
    [] OTHER -> ps
deserialize_each(ctx, ps, i, nm, sers) ==
  IF sers = <<>> \/ ps.err THEN ps
  ELSE deserialize_each(ctx, deserialize_load(ctx, ps, i, nm, Head(sers)),
                        i, nm, Tail(sers))

RECURSIVE paste_each(_, _, _), postload_each(_, _)
\* the outer pass over copy_data.elements.keys()
paste_each(ctx, ps, keys) ==
  IF keys = <<>> \/ ps.err THEN ps
  ELSE paste_each(ctx,
                  IF DictHas(ps.new, Head(keys)) THEN ps
                  ELSE element_lookup(ctx, ps, Head(keys)).ps,
                  Tail(keys))
\* the final pass: postload() on new_elements.values()
postload_each(ps, vals) ==
  IF vals = <<>> THEN ps
  ELSE postload_each(Logged(ps, "postload", Head(vals).val), Tail(vals))

\* the final pass, reached unless an exception was raised
postload_all(walked) ==
  IF walked.err THEN walked ELSE postload_each(walked, walked.new)

\* what _paste leaves and returns
paste_result_unfiltered(d, done) ==
  [store |-> done.store, nextId |-> done.nextId, new |-> done.new,
   log |-> done.log, lookups |-> done.lookups, err |-> done.err,
   result |-> IF done.err THEN {}
              ELSE {done.new[j].val : j \in DOMAIN done.new}]
paste_result(d, done) ==
  [store |-> done.store, nextId |-> done.nextId, new |-> done.new,
   log |-> done.log, lookups |-> done.lookups, err |-> done.err,
   result |-> IF done.err THEN {}
              ELSE {done.new[j].val : j \in
                      {k \in DOMAIN done.new :
                         /\ IsPresentation(done.store, done.new[k].val)
                         /\ done.store[done.new[k].val].diagram = d}}]

\* _paste(copy_data, diagram, full)
paste_all(st, nid, cd, d, full) ==
  paste_result(d,
    postload_all(paste_each([cd |-> cd, diagram |-> d, full |-> full],
                            PasteStart(st, nid, cd, d), DictKeys(cd.elements))))

paste_link(st, nid, cd, d) == paste_all(st, nid, cd, d, FALSE)
paste_full(st, nid, cd, d) == paste_all(st, nid, cd, d, TRUE)

----------------------------------------------------------------------------
(* compare: the change records *)

NoText == [some |-> FALSE, s |-> ""]
Text(x) == [some |-> TRUE, s |-> x]

\* a change record as create() builds it; every attribute is None (NoText, or
\* 0 for an id) or the str() of the value passed
ChangeRecord(rec, op, element_id) ==
  [rec |-> rec, op |-> op, element_id |-> element_id,
   element_name |-> "", modeling_language |-> "", diagram_id |-> 0,
   property_name |-> "", property_value |-> NoText, property_type |-> NoText,
   property_ref |-> 0]

\* type(e).__modeling_language__
ModelingLanguage(cls) == IF cls \in {"Diagram", "Item", "StyleSheet"} THEN "Core" ELSE "UML"

ElementChange(op, st, key) ==
  [ChangeRecord("ElementChange", op, key) EXCEPT
     !.element_name = st[key].cls,
     !.modeling_language = ModelingLanguage(st[key].cls),
     !.diagram_id = IF op = "add" /\ st[key].kind = "presentation"
                    THEN st[key].diagram ELSE 0]

RefChangeWithoutRef(op, element_id, nm, ref) ==
  [ChangeRecord("RefChange", op, element_id) EXCEPT !.property_name = nm]
RefChange(op, element_id, nm, ref) ==
  [ChangeRecord("RefChange", op, element_id) EXCEPT
     !.property_name = nm, !.property_ref = ref]

\* set_value_change_property_value(value_change, new_value)
\* the branches are tried in the order of the if/elif chain
set_value_change_property_value(value_change, new_value) ==
  IF new_value.t = "none"
  THEN [value_change EXCEPT !.property_value = NoText, !.property_type = NoText]
  ELSE IF new_value.t = "str"
  THEN [value_change EXCEPT !.property_value = Text(new_value.s),
                            !.property_type = Text("str")]
  ELSE IF new_value.t = "bool"
  THEN [value_change EXCEPT !.property_value = Text(PyStr(new_value)),
                            !.property_type = Text("bool")]
  ELSE IF new_value.t = "int"
  THEN [value_change EXCEPT !.property_value = Text(PyStr(new_value)),
                            !.property_type = Text("int")]
  ELSE IF PyEq(new_value, Unlimited)
  THEN [value_change EXCEPT !.property_value = Text(PyStr(new_value)),
                            !.property_type = Text("UnlimitedNatural")]
  ELSE value_change

ValueChange(element_id, nm, value) ==
  set_value_change_property_value(
    [ChangeRecord("ValueChange", "update", element_id) EXCEPT !.property_name = nm],
    value)

\* the names save() may report, in the order the model walks them
PropertyNames ==
  <<"id", "name", "count", "flag", "ref", "coll", "subject", "diagram", "parent",
    "children", "presentation", "ownedPresentation">>

\* dict.get(name): the saved value, or None
SavedValue(props, nm) ==
  IF \E j \in DOMAIN props : props[j].name = nm
  THEN props[CHOOSE j \in DOMAIN props : props[j].name = nm].val
  ELSE Scalar(NoneV)

IsNone(pv) == pv.k = "scalar" /\ pv.v.t = "none"

\* value != other, for a value that is neither a Base nor a collection
ValueDiffersAlways(value, other) == TRUE
ValueDiffers(value, other) ==
  IF other.k = "scalar" THEN ~PyEq(value.v, other.v) ELSE TRUE

\* the RefChange(add) records of a collection value
CollectionAddsAll(id, nm, value, other) ==
  [j \in DOMAIN value.ids |-> RefChange("add", id, nm, value.ids[j])]
CollectionAdds(id, nm, value, other) ==
  LET other_ids == IF IsNone(other) THEN {} ELSE Range(other.ids)
      added == SelectSeq(value.ids, LAMBDA v : v \notin other_ids)
  IN [j \in DOMAIN added |-> RefChange("add", id, nm, added[j])]

\* the RefChange(remove) records of a collection the ancestor held
CollectionRemovesNone(id, nm, value, other) == <<>>
CollectionRemoves(id, nm, value, other) ==
  LET value_ids == IF value.k = "coll" THEN Range(value.ids) ELSE {}
      removed == SelectSeq(other.ids, LAMBDA o : o \notin value_ids)
  IN [j \in DOMAIN removed |-> RefChange("remove", id, nm, removed[j])]

\* other is None or value.id != other.id, for a value that is a Base
ReferenceDiffersIfBoth(value, other) == ~IsNone(other) /\ value.id # other.id
ReferenceDiffers(value, other) == IsNone(other) \/ value.id # other.id

\* the body of updated_properties' loop for one property name
property_changes(id, nm, value, other) ==
  (IF value.k = "ref"
   THEN IF ReferenceDiffers(value, other)
        THEN <<RefChange("update", id, nm, value.id)>>
        ELSE <<>>
   ELSE IF value.k = "coll"
   THEN CollectionAdds(id, nm, value, other)
   ELSE IF ValueDiffers(value, other)
   THEN IF other.k = "ref" THEN <<RefChange("update", id, nm, 0)>>
        ELSE IF other.k # "coll" THEN <<ValueChange(id, nm, value.v)>>
        ELSE <<>>
   ELSE <<>>)
  \o (IF other.k = "coll" THEN CollectionRemoves(id, nm, value, other) ELSE <<>>)

RECURSIVE changes_of_names(_, _, _, _)
changes_of_names(id, names, ancestor_vals, incoming_vals) ==
  IF names = <<>> THEN <<>>
  ELSE LET nm == Head(names)
           here == IF nm = "id" THEN <<>>
                   ELSE property_changes(id, nm, SavedValue(incoming_vals, nm),
                                         SavedValue(ancestor_vals, nm))
       IN here \o changes_of_names(id, Tail(names), ancestor_vals, incoming_vals)

\* updated_properties(ancestor, incoming, create); a = 0 stands for None
updated_properties(anc, a, inc, i) ==
  LET ancestor_vals == IF a # 0 THEN Save(anc, a) ELSE <<>>
      incoming_vals == Save(inc, i)
      reported == {ancestor_vals[j].name : j \in DOMAIN ancestor_vals}
                  \cup {incoming_vals[j].name : j \in DOMAIN incoming_vals}
      names == SelectSeq(PropertyNames, LAMBDA nm : nm \in reported)
  IN changes_of_names(IF a # 0 THEN a ELSE i, names, ancestor_vals, incoming_vals)

IsStyleSheet(st, key) == st[key].cls = "StyleSheet"

\* the last style sheet a loop over keys meets (0: none)
LastStyleSheetNone(st, keys) == 0
LastStyleSheet(st, keys) ==
  LET sheets == SelectSeq(keys, LAMBDA key : IsStyleSheet(st, key))
  IN IF sheets = <<>> THEN 0 ELSE sheets[Len(sheets)]

RECURSIVE removed_elements(_, _), added_elements(_, _), shared_elements(_, _, _, _)
\* the loop over ancestor_keys.difference(incoming_keys)
removed_elements(anc, keys) ==
  IF keys = <<>> THEN <<>>
  ELSE (IF IsStyleSheet(anc, Head(keys)) THEN <<>>
        ELSE <<ElementChange("remove", anc, Head(keys))>>)
       \o removed_elements(anc, Tail(keys))
\* the loop over incoming_keys.difference(ancestor_keys)
added_elements(inc, keys) ==
  IF keys = <<>> THEN <<>>
  ELSE (IF IsStyleSheet(inc, Head(keys)) THEN <<>>
        ELSE <<ElementChange("add", inc, Head(keys))>>
             \o updated_properties(<<>>, 0, inc, Head(keys)))
       \o added_elements(inc, Tail(keys))
\* the loop over ancestor_keys.intersection(incoming_keys), which raises
\* UnmatchableModel at the first pair of different types
shared_elements(anc, inc, keys, acc) ==
  IF keys = <<>> THEN acc
  ELSE IF anc[Head(keys)].cls # inc[Head(keys)].cls
  THEN [acc EXCEPT !.raised = TRUE]
  ELSE shared_elements(anc, inc, Tail(keys),
         [acc EXCEPT !.yielded = @ \o updated_properties(anc, Head(keys),
                                                        inc, Head(keys))])

\* compare(current, ancestor, incoming), consumed to its end: the records
\* created in current and yielded, in order, and whether the generator
\* raised UnmatchableModel.  order is the order in which the set of shared
\* keys is iterated.  The sets of removed keys, of added keys and of property
\* names are walked in one fixed order each: Python leaves their order open
\* too, but it only permutes records within one phase, and the properties
\* below count records without regard to their position.
compare(anc, inc, order) ==
  LET gone == SeqOfSet(DOMAIN anc \ DOMAIN inc)
      come == SeqOfSet(DOMAIN inc \ DOMAIN anc)
      ancestor_style_sheet == LastStyleSheet(anc, gone)
      incoming_style_sheet == LastStyleSheet(inc, come)
      first == removed_elements(anc, gone) \o added_elements(inc, come)
      both == shared_elements(anc, inc, order, [yielded |-> first, raised |-> FALSE])
  IN IF both.raised THEN both
     ELSE IF ancestor_style_sheet # 0 /\ incoming_style_sheet # 0
             /\ ancestor_style_sheet # incoming_style_sheet
     THEN [both EXCEPT !.yielded = @ \o updated_properties(anc, ancestor_style_sheet,
                                                          inc, incoming_style_sheet)]
     ELSE both

----------------------------------------------------------------------------
(* The copy/paste state machine *)

\* nothing was handed to serialize
NoWire ==
  [stage |-> "idle", a |-> Scalar(NoneV), b |-> Scalar(NoneV),
   sa |-> SerV(""), sb |-> SerV(""), garbled |-> FALSE, live |-> {},
   out |-> [values |-> <<>>, raised |-> FALSE]]

NoClipboard == [valid |-> FALSE, elements |-> <<>>, diagram_refs |-> {}]
NotCopied ==
  [done |-> FALSE, items |-> <<>>, lookup |-> FALSE, err |-> FALSE,
   calls |-> 0, initial |-> <<>>, gone |-> {}]
NotPasted ==
  [done |-> FALSE, full |-> FALSE, target |-> 0, pre |-> <<>>, pre_nextId |-> 0,
   new |-> <<>>, log |-> <<>>, lookups |-> <<>>, err |-> FALSE, result |-> {}]

\* Two diagrams, a presentation on each (the first one with a subject) and
\* two elements
InitStore ==
  (1 :> [NewNode("Diagram") EXCEPT !.name = StrV("d1")])
  @@ (2 :> NewNode("Diagram"))
  @@ (3 :> [NewNode("Item") EXCEPT !.diagram = 1, !.subject = 5])
  @@ (4 :> [NewNode("Item") EXCEPT !.diagram = 2, !.name = StrV("note")])
  @@ (5 :> [NewNode("Class") EXCEPT !.name = StrV("a"), !.flag = BoolV(TRUE)])
  @@ (6 :> [NewNode("Package") EXCEPT !.name = StrV("1"), !.count = IntV(1),
                                      !.flag = BoolV(FALSE)])

InitPaste ==
  /\ store = InitStore
  /\ nextId = 7
  /\ clipboard = NoClipboard
  /\ copied = NotCopied
  /\ pasted = NotPasted
  /\ edits = 0

CanEdit == edits < MaxEdits /\ ~copied.done

\* a.ref = b
SetRef(a, b) ==
  /\ CanEdit
  /\ store[a].ref # b
  /\ store' = [store EXCEPT ![a].ref = b]
  /\ edits' = edits + 1
  /\ UNCHANGED <<nextId, clipboard, copied, pasted>>
  /\ UNCHANGED diffVars
  /\ UNCHANGED wire

\* p.subject = s
SetSubject(p, s) ==
  /\ CanEdit
  /\ store[p].subject # s
  /\ store' = [store EXCEPT ![p].subject = s]
  /\ edits' = edits + 1
  /\ UNCHANGED <<nextId, clipboard, copied, pasted>>
  /\ UNCHANGED diffVars
  /\ UNCHANGED wire

\* n becomes owned by o
SetOwner(n, o) ==
  /\ CanEdit
  /\ n # o
  /\ store[n].owner # o
  /\ store' = [store EXCEPT ![n].owner = o]
  /\ edits' = edits + 1
  /\ UNCHANGED <<nextId, clipboard, copied, pasted>>
  /\ UNCHANGED diffVars
  /\ UNCHANGED wire

\* a.coll.append(b)
AddToColl(a, b) ==
  /\ CanEdit
  /\ b \notin Range(store[a].coll)
  /\ store' = [store EXCEPT ![a].coll = Append(@, b)]
  /\ edits' = edits + 1
  /\ UNCHANGED <<nextId, clipboard, copied, pasted>>
  /\ UNCHANGED diffVars
  /\ UNCHANGED wire

\* diagram.create(Item, parent=p): a new presentation nested in p
CreateChild(p) ==
  /\ CanEdit
  /\ store' = SetParent(store @@ (nextId :> [NewNode("Item") EXCEPT
                                              !.diagram = store[p].diagram]),
                        nextId, p)
  /\ nextId' = nextId + 1
  /\ edits' = edits + 1
  /\ UNCHANGED <<clipboard, copied, pasted>>
  /\ UNCHANGED diffVars
  /\ UNCHANGED wire

\* the sequences copy_full may be given: distinct nodes of the store
ItemSeqs(st) ==
  {<<i>> : i \in DOMAIN st}
  \cup (IF MaxItems >= 2
        THEN {<<i, j>> : i, j \in DOMAIN st} \ {<<i, i>> : i \in DOMAIN st}
        ELSE {})
  \cup (IF MaxItems >= 3
        THEN {<<i, j, k>> : i, j, k \in DOMAIN st}
             \ {s \in {<<i, j, k>> : i, j, k \in DOMAIN st} :
                  s[1] = s[2] \/ s[1] = s[3] \/ s[2] = s[3]}
        ELSE {})

\* what a copy_full call that returned cd leaves behind
Copied(items, useLookup, cd) ==
  /\ clipboard' = IF cd.err THEN NoClipboard
                  ELSE [valid |-> TRUE, elements |-> cd.elements,
                        diagram_refs |-> cd.diagram_refs]
  /\ copied' = [done |-> TRUE, items |-> items, lookup |-> useLookup,
                err |-> cd.err, calls |-> cd.calls, initial |-> cd.initial,
                gone |-> {}]

\* clipboard = copy_full(items, lookup); a RecursionError leaves no bundle
CopyFull(items, useLookup) ==
  /\ ~copied.done
  /\ Copied(items, useLookup, copy_full(store, items, useLookup))
  /\ UNCHANGED <<store, nextId, pasted, edits>>
  /\ UNCHANGED diffVars
  /\ UNCHANGED wire

\* what leaves the store with node i: the node, and the presentations of a
\* diagram
UnlinkedWith(st, i) ==
  {i} \cup {q \in DOMAIN st : st[q].kind = "presentation" /\ st[q].diagram = i}

\* the store without the nodes of gone: no node refers to them any more
Unlinked(st, gone) ==
  [x \in DOMAIN st \ gone |->
     [st[x] EXCEPT !.ref = IF @ \in gone THEN 0 ELSE @,
                   !.subject = IF @ \in gone THEN 0 ELSE @,
                   !.parent = IF @ \in gone THEN 0 ELSE @,
                   !.owner = IF @ \in gone THEN 0 ELSE @,
                   !.coll = SelectSeq(@, LAMBDA m : m \notin gone),
                   !.children = SelectSeq(@, LAMBDA m : m \notin gone)]]

\* node.unlink() between copy and paste: the bundle still names the node
Unlink(i) ==
  /\ clipboard.valid
  /\ ~pasted.done
  /\ copied.gone = {}
  /\ store' = Unlinked(store, UnlinkedWith(store, i))
  /\ copied' = [copied EXCEPT !.gone = UnlinkedWith(store, i)]
  /\ UNCHANGED <<nextId, clipboard, pasted, edits>>
  /\ UNCHANGED diffVars
  /\ UNCHANGED wire

\* what a _paste call that ended as r leaves behind
Pasted(d, full, r) ==
  /\ store' = r.store
  /\ nextId' = r.nextId
  /\ pasted' = [done |-> TRUE, full |-> full, target |-> d, pre |-> store,
                pre_nextId |-> nextId,
                new |-> r.new, log |-> r.log, lookups |-> r.lookups,
                err |-> r.err,
                result |-> r.result]

Paste(d, full) ==
  /\ clipboard.valid
  /\ ~pasted.done
  /\ Pasted(d, full, paste_all(store, nextId, clipboard, d, full))
  /\ UNCHANGED <<clipboard, copied, edits>>
  /\ UNCHANGED diffVars
  /\ UNCHANGED wire

PasteLink(d) == Paste(d, FALSE)
PasteFull(d) == Paste(d, TRUE)

Next ==
  \/ \E a, b \in Elements(store) : SetRef(a, b)
  \/ \E p \in Presentations(store) :
       \E s \in Elements(store) \cup Diagrams(store) \cup {0} : SetSubject(p, s)
  \/ \E n \in Elements(store) \cup Diagrams(store) :
       \E o \in Elements(store) : SetOwner(n, o)
  \/ \E a, b \in Elements(store) : AddToColl(a, b)
  \/ \E p \in Presentations(store) : CreateChild(p)
  \/ \E i \in DOMAIN store : Unlink(i)
  \/ \E items \in ItemSeqs(store) : \E l \in BOOLEAN : CopyFull(items, l)
  \/ \E d \in Diagrams(store) : PasteLink(d)
  \/ \E d \in Diagrams(store) : PasteFull(d)


----------------------------------------------------------------------------
(* The compare state machine *)

NotCompared ==
  [done |-> FALSE, raised |-> FALSE, order |-> <<>>, before |-> <<>>,
   yielded |-> <<>>]

\* The common ancestor: an element with every kind of property set, two
\* elements it refers to, and the style sheet of the model
InitAncestor ==
  (1 :> [NewNode("Class") EXCEPT !.name = StrV("X"), !.count = IntV(1),
                                 !.flag = BoolV(TRUE), !.ref = 2,
                                 !.coll = <<2, 3>>])
  @@ (2 :> [NewNode("Class") EXCEPT !.name = StrV("q")])
  @@ (3 :> NewNode("Package"))
  @@ (4 :> [NewNode("StyleSheet") EXCEPT !.name = StrV("s")])

\* What the current store holds before compare: nothing, or a pending change
\* left by an earlier compare
InitCurrents ==
  {<<>>, <<ElementChange("remove", InitAncestor, 3)>>}

InitCompare ==
  /\ ancestor = InitAncestor
  /\ incoming = InitAncestor
  /\ current \in InitCurrents
  /\ compared = NotCompared
  /\ changes = 0

Init == InitPaste /\ InitCompare /\ current = <<>> /\ wire = NoWire
InitDiff == InitPaste /\ InitCompare /\ wire = NoWire

CanChange == changes < MaxChanges /\ ~compared.done

\* the values a scalar property of the model takes
ValuesOf(nm) ==
  CASE nm = "name" -> {NoneV, StrV("X"), StrV("Y")}
    [] nm = "count" -> {NoneV, IntV(0), IntV(1), Unlimited}
    [] OTHER -> {NoneV, BoolV(FALSE), BoolV(TRUE)}

SetField(nd, nm, v) ==
  CASE nm = "name" -> [nd EXCEPT !.name = v]
    [] nm = "count" -> [nd EXCEPT !.count = v]
    [] OTHER -> [nd EXCEPT !.flag = v]

GetField(nd, nm) ==
  CASE nm = "name" -> nd.name
    [] nm = "count" -> nd.count
    [] OTHER -> nd.flag

\* the elements somebody may have created in incoming: a bare one, a style
\* sheet like the ancestor's, a style sheet with other content, and one with
\* scalars, a reference and a two-member collection
NewElements ==
  {NewNode("Class"),
   [NewNode("StyleSheet") EXCEPT !.name = StrV("s")],
   [NewNode("StyleSheet") EXCEPT !.name = StrV("t")],
   [NewNode("Package") EXCEPT !.name = StrV("b"), !.count = IntV(0),
                              !.flag = BoolV(FALSE), !.ref = 1,
                              !.coll = <<1, 2>>]}

\* the identifier a new element of incoming gets
FreshKey == Cardinality(DOMAIN ancestor \cup DOMAIN incoming) + 1

\* incoming gained an element
AddElement(nd) ==
  /\ CanChange
  /\ nd.ref \in DOMAIN incoming \cup {0}
  /\ Range(nd.coll) \subseteq DOMAIN incoming
  /\ incoming' = incoming @@ (FreshKey :> nd)
  /\ changes' = changes + 1
  /\ UNCHANGED <<ancestor, current, compared>>
  /\ UNCHANGED pasteVars
  /\ UNCHANGED wire

\* incoming lost an element (unlink(): nothing refers to it any more)
RemoveElement(i) ==
  /\ CanChange
  /\ incoming' =
       [x \in DOMAIN incoming \ {i} |->
          [incoming[x] EXCEPT
             !.ref = IF @ = i THEN 0 ELSE @,
             !.coll = SelectSeq(@, LAMBDA m : m # i)]]
  /\ changes' = changes + 1
  /\ UNCHANGED <<ancestor, current, compared>>
  /\ UNCHANGED pasteVars
  /\ UNCHANGED wire

\* a scalar property of an element of incoming was set
SetValue(i, nm, v) ==
  /\ CanChange
  /\ GetField(incoming[i], nm) # v
  /\ incoming' = [incoming EXCEPT ![i] = SetField(@, nm, v)]
  /\ changes' = changes + 1
  /\ UNCHANGED <<ancestor, current, compared>>
  /\ UNCHANGED pasteVars
  /\ UNCHANGED wire

\* the single reference of an element of incoming was set or cleared
SetReference(i, j) ==
  /\ CanChange
  /\ incoming[i].ref # j
  /\ incoming' = [incoming EXCEPT ![i].ref = j]
  /\ changes' = changes + 1
  /\ UNCHANGED <<ancestor, current, compared>>
  /\ UNCHANGED pasteVars
  /\ UNCHANGED wire

CollAppend(i, j) ==
  /\ CanChange
  /\ j \notin Range(incoming[i].coll)
  /\ incoming' = [incoming EXCEPT ![i].coll = Append(@, j)]
  /\ changes' = changes + 1
  /\ UNCHANGED <<ancestor, current, compared>>
  /\ UNCHANGED pasteVars
  /\ UNCHANGED wire

CollRemove(i, j) ==
  /\ CanChange
  /\ j \in Range(incoming[i].coll)
  /\ incoming' = [incoming EXCEPT ![i].coll = SelectSeq(@, LAMBDA m : m # j)]
  /\ changes' = changes + 1
  /\ UNCHANGED <<ancestor, current, compared>>
  /\ UNCHANGED pasteVars
  /\ UNCHANGED wire

\* the members of a collection of incoming were put in the opposite order
CollReverse(i) ==
  /\ CanChange
  /\ Len(incoming[i].coll) >= 2
  /\ incoming' = [incoming EXCEPT
                    ![i].coll = [j \in DOMAIN @ |-> @[Len(@) + 1 - j]]]
  /\ changes' = changes + 1
  /\ UNCHANGED <<ancestor, current, compared>>
  /\ UNCHANGED pasteVars
  /\ UNCHANGED wire

\* in incoming the identifier is bound to an element of another type
Retype(i, cls) ==
  /\ CanChange
  /\ incoming[i].cls # cls
  /\ incoming' = [incoming EXCEPT ![i].cls = cls]
  /\ changes' = changes + 1
  /\ UNCHANGED <<ancestor, current, compared>>
  /\ UNCHANGED pasteVars
  /\ UNCHANGED wire

\* the orders in which a set of keys may be iterated
Orders(S) ==
  {f \in [1..Cardinality(S) -> S] : \A x \in S : \E j \in DOMAIN f : f[j] = x}

\* current.create(type) for every record compare yields: the records are new
\* elements of current
create_nowhere(cur, recs) == cur
create(cur, recs) == cur \o recs

\* the elements the local create() returns for the records compare builds:
\* current.create(type) makes a new element for each, whatever current holds,
\* and its attributes are the keyword arguments
created_unless_pending(cur, recs) == SelectSeq(recs, LAMBDA r : r \notin Range(cur))
created(cur, recs) == recs

\* what a call of compare leaves behind: the records yielded to the caller
Compared(cur, r, order) ==
  [done |-> TRUE, raised |-> r.raised, order |-> order, before |-> cur,
   yielded |-> created(cur, r.yielded)]

\* list(compare(current, ancestor, incoming)), or the records it yielded
\* before it raised
Compare(order) ==
  /\ ~compared.done
  /\ compared' = Compared(current, compare(ancestor, incoming, order), order)
  /\ current' = create(current, compared'.yielded)
  /\ UNCHANGED <<ancestor, incoming, changes>>
  /\ UNCHANGED pasteVars
  /\ UNCHANGED wire

NextDiff ==
  \/ \E nd \in NewElements : AddElement(nd)
  \/ \E i \in DOMAIN incoming : RemoveElement(i)
  \/ \E i \in DOMAIN incoming : \E nm \in {"name", "count", "flag"} :
       \E v \in ValuesOf(nm) : SetValue(i, nm, v)
  \/ \E i \in DOMAIN incoming : \E j \in DOMAIN incoming \cup {0} :
       SetReference(i, j)
  \/ \E i, j \in DOMAIN incoming : CollAppend(i, j)
  \/ \E i, j \in DOMAIN incoming : CollRemove(i, j)
  \/ \E i \in DOMAIN incoming : CollReverse(i)
  \/ \E i \in DOMAIN incoming : \E cls \in {"Class", "Package"} : Retype(i, cls)
  \/ \E order \in Orders(DOMAIN ancestor \cap DOMAIN incoming) : Compare(order)

----------------------------------------------------------------------------
(* The transport state machine: serialize, the payload, deserialize *)

\* the identifiers a reference on the wire may name
WireIds == {5, 6}

\* the scalars handed to serialize
WireScalars ==
  {Scalar(NoneV), Scalar(StrV("a")), Scalar(StrV("1")), Scalar(StrV("True")),
   Scalar(IntV(0)), Scalar(IntV(1)), Scalar(BoolV(FALSE)), Scalar(BoolV(TRUE))}

\* the values handed to serialize: a scalar, a node, a collection of nodes
WireValues ==
  WireScalars
  \cup {RefTo(i) : i \in WireIds}
  \cup {Coll(<<>>)}
  \cup {Coll(<<i>>) : i \in WireIds}
  \cup {Coll(<<i, j>>) : i, j \in WireIds}

InitWire ==
  /\ InitPaste
  /\ InitCompare /\ current = <<>>
  /\ \E a \in WireValues : \E b \in WireScalars :
       wire = [NoWire EXCEPT !.stage = "value", !.a = a, !.b = b]

\* deserialize(ser, lookup), consumed to its end, for a lookup that finds
\* the nodes of live: the values it yields and whether it raised
RECURSIVE deserialize(_, _), deserialize_members(_, _)
deserialize(ser, live) ==
  CASE ser.tag = "r" ->
         [values |-> IF ser.id \in live THEN <<RefTo(ser.id)>> ELSE <<>>,
          raised |-> FALSE]
    [] ser.tag = "c" -> deserialize_members(ser.items, live)
    [] ser.tag = "v" -> [values |-> <<Scalar(StrV(ser.s))>>, raised |-> FALSE]
    [] OTHER -> [values |-> <<>>, raised |-> FALSE]
deserialize_members(items, live) ==
  IF items = <<>> THEN [values |-> <<>>, raised |-> FALSE]
  ELSE [values |-> deserialize(Head(items), live).values
                   \o deserialize_members(Tail(items), live).values,
        raised |-> deserialize(Head(items), live).raised
                   \/ deserialize_members(Tail(items), live).raised]

\* sa = serialize(a); sb = serialize(b)
Serialize ==
  /\ wire.stage = "value"
  /\ wire' = [wire EXCEPT !.stage = "sent", !.sa = serialize(wire.a),
                          !.sb = serialize(wire.b)]
  /\ UNCHANGED pasteVars
  /\ UNCHANGED diffVars

\* the tags a payload may carry that are none of "v", "r" and "c"
BadTags == {"x", "V", ""}

\* the payload of a arrives with a tag deserialize does not know
Garble(tag) ==
  /\ wire.stage = "sent"
  /\ ~wire.garbled
  /\ wire' = [wire EXCEPT !.garbled = TRUE, !.sa.tag = tag]
  /\ UNCHANGED pasteVars
  /\ UNCHANGED diffVars

\* list(deserialize(sa, lookup))
Deserialize(live) ==
  /\ wire.stage = "sent"
  /\ wire' = [wire EXCEPT !.stage = "read", !.live = live,
                          !.out = deserialize(wire.sa, live)]
  /\ UNCHANGED pasteVars
  /\ UNCHANGED diffVars

\* the property a value of this kind is saved under
PropertyOf(value) ==
  CASE value.k = "ref" -> "ref"
    [] value.k = "coll" -> "coll"
    [] value.v.t = "int" -> "count"
    [] value.v.t = "bool" -> "flag"
    [] OTHER -> "name"

\* the payload becomes the only property of the only entry of a bundle
Send ==
  /\ wire.stage = "sent"
  /\ wire' = [wire EXCEPT !.stage = "bundled"]
  /\ clipboard' =
       [valid |-> TRUE,
        elements |-> <<[key |-> 9,
                        val |-> BaseCopy("Class", 9,
                                  <<[key |-> PropertyOf(wire.a), val |-> wire.sa]>>)]>>,
        diagram_refs |-> {}]
  /\ UNCHANGED <<store, nextId, copied, pasted, edits>>
  /\ UNCHANGED diffVars

NextWire ==
  \/ Serialize
  \/ \E tag \in BadTags : Garble(tag)
  \/ \E live \in SUBSET WireIds : Deserialize(live)
  \/ Send
  \/ \E d \in Diagrams(store) : PasteLink(d)
  \/ \E d \in Diagrams(store) : PasteFull(d)

Spec == Init /\ [][Next]_vars
SpecWire == InitWire /\ [][NextWire]_vars
SpecDiff == InitDiff /\ [][NextDiff]_vars

----------------------------------------------------------------------------
(* Properties of paste *)

BundleKeys == Range(DictKeys(clipboard.elements))
PresentationKeys ==
  {k \in BundleKeys : DictGet(clipboard.elements, k).rec = "PresentationCopy"}
\* the subject a bundle entry names (0: none)
SubjectIn(k) ==
  LET data == DictGet(clipboard.elements, k).data
  IN IF DictHas(data, "subject") THEN DictGet(data, "subject").id ELSE 0
\* the node paste resolved a bundle key to
NewOf(k) == DictGet(pasted.new, k)
\* the nodes this paste call created
Created == DOMAIN store \ DOMAIN pasted.pre
\* live in the target store before the paste, and not a presentation
LiveDefinition(i) == i \in DOMAIN pasted.pre /\ pasted.pre[i].kind # "presentation"

LinkPasted == pasted.done /\ ~pasted.full /\ ~pasted.err
FullPasted == pasted.done /\ pasted.full /\ ~pasted.err

\* C1 as stated: in link mode the subject of every pasted presentation whose
\* subject id is a live non-presentation node is that existing node, and no
\* node is created for that id.
C1_LinkReusesLiveSubject_AsStated ==
  LinkPasted =>
    \A k \in PresentationKeys :
      LiveDefinition(SubjectIn(k)) =>
        /\ store[NewOf(k)].subject = SubjectIn(k)
        /\ \A j \in BundleKeys : j = SubjectIn(k) /\ DictHas(pasted.new, j)
                                    => NewOf(j) \notin Created

\* C1 (amended): in link mode, when a presentation record's subject id is a
\* live non-presentation node of the target store and is not one of the
\* bundle's diagram_refs, the pasted presentation's subject is that existing
\* node itself and paste resolves that id to no other node.
C1_LinkReusesLiveSubject ==
  LinkPasted =>
    \A k \in PresentationKeys :
      (LiveDefinition(SubjectIn(k)) /\ SubjectIn(k) \notin clipboard.diagram_refs) =>
        /\ store[NewOf(k)].subject = SubjectIn(k)
        /\ ~DictHas(pasted.new, SubjectIn(k))
        /\ \A n \in Created : store[n].kind = "presentation"
                              \/ \E j \in BundleKeys \ {SubjectIn(k)} :
                                   DictHas(pasted.new, j) /\ NewOf(j) = n

C1_Witness ==
  /\ LinkPasted
  /\ \E k \in PresentationKeys :
       /\ LiveDefinition(SubjectIn(k))
       /\ SubjectIn(k) \in BundleKeys \ clipboard.diagram_refs
       /\ pasted.target # pasted.pre[k].diagram

\* C2: in full mode every bundle key that is not a diagram_ref resolves to a
\* node created by this paste, never to the original; the subject of a pasted
\* presentation (its id a bundle key outside diagram_refs) is a created node
\* other than the original subject, which is still live.
C2_FullDuplicates ==
  FullPasted =>
    /\ \A k \in BundleKeys \ clipboard.diagram_refs :
         DictHas(pasted.new, k) /\ NewOf(k) \in Created /\ NewOf(k) # k
    /\ \A k \in PresentationKeys :
         SubjectIn(k) \in BundleKeys \ clipboard.diagram_refs =>
           /\ store[NewOf(k)].subject \in Created
           /\ store[NewOf(k)].subject # SubjectIn(k)
           /\ store[NewOf(k)].subject = NewOf(SubjectIn(k))

C2_Witness ==
  /\ FullPasted
  /\ copied.lookup
  /\ \E k \in PresentationKeys :
       /\ SubjectIn(k) \in BundleKeys \ clipboard.diagram_refs
       /\ LiveDefinition(SubjectIn(k))
       /\ SubjectIn(k) \in DOMAIN store
       /\ pasted.pre[pasted.pre[k].diagram].owner = SubjectIn(k)

\* two nodes that reference each other and are all that was copied
MutualPair(a, b) ==
  /\ a # b
  /\ {a, b} \subseteq DOMAIN pasted.pre
  /\ pasted.pre[a].ref = b /\ pasted.pre[b].ref = a
  /\ Range(copied.items) = {a, b}
  /\ BundleKeys = {a, b}

\* C3: a full paste of two mutually referencing nodes ends without error,
\* creates exactly two nodes, and each new node references the other new
\* node, whichever of the two the outer pass meets first.
C3_CycleSafe ==
  \A a, b \in DOMAIN pasted.pre :
    (pasted.done /\ pasted.full /\ MutualPair(a, b)) =>
      /\ ~pasted.err
      /\ Cardinality(Created) = 2
      /\ Created = {NewOf(a), NewOf(b)}
      /\ NewOf(a) # NewOf(b)
      /\ store[NewOf(a)].ref = NewOf(b)
      /\ store[NewOf(b)].ref = NewOf(a)

C3_Witness ==
  /\ FullPasted
  /\ \E a, b \in DOMAIN pasted.pre :
       MutualPair(a, b) /\ copied.items = <<b, a>> /\ a < b
       /\ Cardinality(Created) = 2

\* the set that was handed to copy_full
CopiedSet == Range(copied.items)

\* the nodes a node refers to, through any property save() reports
References(st, x) ==
  LET props == Save(st, x)
  IN UNION {IF props[j].val.k = "ref" THEN {props[j].val.id}
            ELSE Range(props[j].val.ids) : j \in DOMAIN props}

\* every reference a node of S holds stays within S
NoReferenceLeaves(S) == \A x \in S : References(pasted.pre, x) \subseteq S

\* the ref and coll properties of the nodes of S stay within S
RefAndCollStayIn(S) ==
  \A x \in S : {pasted.pre[x].ref} \cup Range(pasted.pre[x].coll) \subseteq S \cup {0}

\* no presentation, and no diagram that shows one
NoPresentationIn(S) ==
  \A x \in S : /\ pasted.pre[x].kind # "presentation"
               /\ OwnedPresentation(pasted.pre, x) = <<>>

Linked(x, y) == y \in References(pasted.pre, x)

RECURSIVE ReachableIn(_, _)
ReachableIn(S, R) ==
  LET more == {y \in S \ R : \E x \in R : Linked(x, y) \/ Linked(y, x)}
  IN IF more = {} THEN R ELSE ReachableIn(S, R \cup more)

ConnectedSet(S) == S # {} /\ \A x \in S : ReachableIn(S, {x}) = S

\* the image of an original reference under the paste
Renamed(i) == IF i = 0 THEN 0 ELSE NewOf(i)

\* the created nodes are a renamed copy of S
IsomorphicCopy(S) ==
  /\ ~pasted.err
  /\ \A x \in S : DictHas(pasted.new, x)
  /\ \A x \in S : NewOf(x) \in Created
  /\ \A x, y \in S : NewOf(x) = NewOf(y) => x = y
  /\ Created = {NewOf(x) : x \in S}
  /\ Created \cap S = {}
  /\ \A x \in S :
       LET old == pasted.pre[x]
           new == store[NewOf(x)]
       IN /\ new.cls = old.cls
          /\ new.name = old.name /\ new.count = old.count /\ new.flag = old.flag
          /\ new.ref = Renamed(old.ref)
          /\ new.subject = Renamed(old.subject)
          /\ new.diagram = Renamed(old.diagram)
          /\ new.coll = [j \in DOMAIN old.coll |-> NewOf(old.coll[j])]

\* paste_full(copy_full(S)) into the store S was copied from, as it was
RoundTripCase ==
  /\ pasted.done /\ pasted.full
  /\ ~copied.lookup
  /\ copied.gone = {}
  /\ CopiedSet \subseteq DOMAIN pasted.pre

\* C4 as stated: paste_full(copy_full(S)) of any connected S that no
\* reference leaves creates a renamed copy of S.
C4_RoundTrip_AsStated ==
  (RoundTripCase /\ ConnectedSet(CopiedSet) /\ NoReferenceLeaves(CopiedSet))
    => IsomorphicCopy(CopiedSet)

\* C4 (amended): for a set S that holds no presentation (and no diagram that
\* shows one) and whose ref and coll references stay within S,
\* paste_full(copy_full(S)) into the same store creates exactly one new node
\* per node of S, with the same class and scalar values, with every
\* reference renamed to the new node of its target, and with ids disjoint
\* from S.
C4_RoundTrip ==
  (RoundTripCase /\ NoPresentationIn(CopiedSet) /\ RefAndCollStayIn(CopiedSet))
    => IsomorphicCopy(CopiedSet)

C4_Witness ==
  /\ RoundTripCase
  /\ NoPresentationIn(CopiedSet)
  /\ RefAndCollStayIn(CopiedSet)
  /\ Cardinality(CopiedSet) = 2
  /\ \E x, y \in CopiedSet :
       /\ x # y
       /\ pasted.pre[x].ref = y
       /\ pasted.pre[y].coll # <<>>
       /\ pasted.pre[x].flag = BoolV(TRUE)
       /\ pasted.pre[y].count = IntV(1)
       /\ store[NewOf(x)].flag = BoolV(TRUE)

----------------------------------------------------------------------------
(* Properties of copy_full *)

Expanded == copied.done /\ copied.lookup /\ ~pasted.done

\* C5: after copy_full with a resolver the bundle is closed under ownership:
\* whatever a node of the bundle owns has an entry in the bundle too.
C5_OwnershipClosed ==
  (Expanded /\ ~copied.err) =>
    \A k \in BundleKeys :
      \A o \in Range(owns(store, k)) : owner(store, o) = k => o \in BundleKeys

\* C6: copy_full with a resolver ends with a bundle (no runaway recursion),
\* leaves the entries it started from as they were, and makes no more
\* recursive copy_owned calls than it adds ids to the bundle.
C6_CopyTerminates ==
  Expanded =>
    /\ ~copied.err
    /\ \A j \in DOMAIN copied.initial : clipboard.elements[j] = copied.initial[j]
    /\ copied.calls - Len(copied.initial)
         <= Len(clipboard.elements) - Len(copied.initial)

----------------------------------------------------------------------------
(* Properties of compare *)

\* how many records of a sequence satisfy a predicate
Count(recs, P(_)) == Cardinality({j \in DOMAIN recs : P(recs[j])})

Completed == compared.done /\ ~compared.raised
SharedKeys == DOMAIN ancestor \cap DOMAIN incoming

\* C7: when compare raises UnmatchableModel it has emitted no partial
\* change: it yielded no record and inserted none into the current store
C7_UnmatchableEmitsNothing ==
  (compared.done /\ compared.raised)
    => (compared.yielded = <<>> /\ current = compared.before)

\* incoming is its ancestor plus the one element b, which is no style sheet
OnlyAdded(b) ==
  /\ Completed
  /\ DOMAIN incoming = DOMAIN ancestor \cup {b}
  /\ b \notin DOMAIN ancestor
  /\ ~IsStyleSheet(incoming, b)
  /\ \A x \in DOMAIN ancestor : incoming[x] = ancestor[x]

IsAddOf(b, r) ==
  /\ r.rec = "ElementChange" /\ r.op = "add" /\ r.element_id = b
  /\ r.element_name = incoming[b].cls

\* the text and the type tag of a scalar, as a ValueChange carries them
TextOf(v) ==
  CASE v.t = "none" -> NoText
    [] v.t = "str" -> Text(v.s)
    [] v.t = "bool" -> Text(IF v.n = 1 THEN "True" ELSE "False")
    [] OTHER -> Text(ToString(v.n))
TagOf(v) == IF v.t = "none" THEN NoText ELSE Text(v.t)

IsValueUpdate(x, nm, v, r) ==
  /\ r.rec = "ValueChange" /\ r.op = "update" /\ r.element_id = x
  /\ r.property_name = nm
  /\ r.property_value = TextOf(v) /\ r.property_type = TagOf(v)

IsRef(op, x, nm, m, r) ==
  /\ r.rec = "RefChange" /\ r.op = op /\ r.element_id = x
  /\ r.property_name = nm /\ r.property_ref = m

\* C8 as the claim states it: one ElementChange(add) for b, one ValueChange
\* or RefChange per non-null property of b, and nothing else
C8_AddComplete_AsStated ==
  \A b \in DOMAIN incoming :
    OnlyAdded(b) =>
      LET props == Save(incoming, b) IN
        /\ Count(compared.yielded, LAMBDA r : IsAddOf(b, r)) = 1
        /\ \A j \in DOMAIN props :
             Count(compared.yielded,
                   LAMBDA r : /\ r.rec \in {"ValueChange", "RefChange"}
                              /\ r.element_id = b
                              /\ r.property_name = props[j].name) = 1
        /\ Len(compared.yielded) = 1 + Len(props)

\* C8: when incoming is its ancestor plus one element b that is no style
\* sheet, compare yields one ElementChange(add) for b with b's type name and
\* id, one ValueChange(update) per non-null scalar of b, one
\* RefChange(update) per single reference of b, one RefChange(add) per
\* member of each collection of b, and nothing else
C8_AddComplete ==
  \A b \in DOMAIN incoming :
    OnlyAdded(b) =>
      LET nd == incoming[b]
          scalars == {nm \in {"name", "count", "flag"} : GetField(nd, nm).t # "none"}
      IN
        /\ Count(compared.yielded, LAMBDA r : IsAddOf(b, r)) = 1
        /\ \A nm \in scalars :
             Count(compared.yielded,
                   LAMBDA r : IsValueUpdate(b, nm, GetField(nd, nm), r)) = 1
        /\ nd.ref # 0 =>
             Count(compared.yielded,
                   LAMBDA r : IsRef("update", b, "ref", nd.ref, r)) = 1
        /\ \A m \in Range(nd.coll) :
             Count(compared.yielded, LAMBDA r : IsRef("add", b, "coll", m, r)) = 1
        /\ Len(compared.yielded)
             = 1 + Cardinality(scalars) + (IF nd.ref # 0 THEN 1 ELSE 0)
                 + Len(nd.coll)

\* an element with scalars, a reference and two collection members was added
C8_Witness ==
  \E b \in DOMAIN incoming :
    /\ OnlyAdded(b)
    /\ incoming[b].name.t = "str" /\ incoming[b].ref # 0
    /\ Len(incoming[b].coll) = 2
    /\ Len(compared.yielded) > Len(Save(incoming, b)) + 1

\* C9: for an element of the same id and type on both sides, compare yields
\* exactly one ValueChange(update) for each scalar property whose value
\* differs, carrying the id, the property name, the incoming value as text
\* and its type tag, and no record for an unchanged scalar nor for id
C9_ScalarDiff ==
  Completed =>
    \A x \in SharedKeys :
      /\ \A nm \in {"name", "count", "flag"} :
           LET av == GetField(ancestor[x], nm)
               iv == GetField(incoming[x], nm)
               about == Count(compared.yielded,
                              LAMBDA r : r.element_id = x /\ r.property_name = nm)
           IN IF av = iv THEN about = 0
              ELSE /\ about = 1
                   /\ Count(compared.yielded,
                            LAMBDA r : IsValueUpdate(x, nm, iv, r)) = 1
      /\ Count(compared.yielded,
               LAMBDA r : r.element_id = x /\ r.property_name = "id") = 0

\* a name went from "X" to "Y" while another scalar of the element stayed
C9_Witness ==
  /\ Completed
  /\ \E x \in SharedKeys :
       /\ ancestor[x].name = StrV("X") /\ incoming[x].name = StrV("Y")
       /\ ancestor[x].count = incoming[x].count /\ incoming[x].count.t = "int"
       /\ \E j \in DOMAIN compared.yielded :
            /\ IsValueUpdate(x, "name", StrV("Y"), compared.yielded[j])
            /\ compared.yielded[j].property_value = Text("Y")
            /\ compared.yielded[j].property_type = Text("str")

\* C10: for a collection of an element present on both sides, compare yields
\* exactly one RefChange(add) per member only incoming has, exactly one
\* RefChange(remove) per member only the ancestor has, nothing for a member
\* of both, never an update; a change of order alone yields nothing
C10_CollectionDiff ==
  Completed =>
    \A x \in SharedKeys :
      LET old == Range(ancestor[x].coll)
          new == Range(incoming[x].coll)
      IN
        /\ \A m \in DOMAIN ancestor \cup DOMAIN incoming :
             /\ Count(compared.yielded, LAMBDA r : IsRef("add", x, "coll", m, r))
                  = (IF m \in new \ old THEN 1 ELSE 0)
             /\ Count(compared.yielded, LAMBDA r : IsRef("remove", x, "coll", m, r))
                  = (IF m \in old \ new THEN 1 ELSE 0)
        /\ Count(compared.yielded,
                 LAMBDA r : r.element_id = x /\ r.property_name = "coll")
             = Cardinality(new \ old) + Cardinality(old \ new)

\* a collection lost one member, kept one and gained one
C10_Witness ==
  /\ Completed
  /\ \E x \in SharedKeys :
       /\ Range(ancestor[x].coll) \ Range(incoming[x].coll) # {}
       /\ Range(incoming[x].coll) \ Range(ancestor[x].coll) # {}
       /\ Range(incoming[x].coll) \cap Range(ancestor[x].coll) # {}
       /\ \E j, k \in DOMAIN compared.yielded :
            /\ compared.yielded[j].op = "add" /\ compared.yielded[j].element_id = x
            /\ compared.yielded[k].op = "remove" /\ compared.yielded[k].element_id = x

----------------------------------------------------------------------------
(* Style sheets in compare *)

SheetsOf(st) == {k \in DOMAIN st : IsStyleSheet(st, k)}

\* ancestor and incoming hold one style sheet each, a and i, under different
\* identifiers, and compare ran to its end
SheetReplaced(a, i) ==
  /\ Completed
  /\ SheetsOf(ancestor) = {a} /\ SheetsOf(incoming) = {i}
  /\ a # i

\* the records of compare that are about element x
About(x) == Count(compared.yielded, LAMBDA r : r.element_id = x)

\* C11: compare yields no ElementChange for a style sheet, neither add nor
\* remove; when ancestor and incoming hold one style sheet each under
\* different identifiers and compare completes, the incoming sheet is diffed
\* property by property against the ancestor's: nothing for a property that
\* is the same, one ValueChange(update) for a scalar that differs, one
\* RefChange(update) for a reference that differs, one RefChange(add) or
\* RefChange(remove) per collection member gained or lost, and no other
\* record about either sheet
C11_StyleSheetExempt ==
  compared.done =>
    /\ \A j \in DOMAIN compared.yielded :
         compared.yielded[j].rec = "ElementChange"
           => /\ compared.yielded[j].element_name # "StyleSheet"
              /\ compared.yielded[j].element_id
                   \notin SheetsOf(ancestor) \cap SheetsOf(incoming)
    /\ \A a \in DOMAIN ancestor : \A i \in DOMAIN incoming :
         SheetReplaced(a, i) =>
           LET differing == {nm \in {"name", "count", "flag"} :
                               GetField(ancestor[a], nm) # GetField(incoming[i], nm)}
               old == Range(ancestor[a].coll)
               new == Range(incoming[i].coll)
           IN
             /\ \A nm \in {"name", "count", "flag"} :
                  Count(compared.yielded,
                        LAMBDA r : r.element_id = a /\ r.property_name = nm)
                    = (IF nm \in differing THEN 1 ELSE 0)
             /\ \A nm \in differing :
                  Count(compared.yielded,
                        LAMBDA r : IsValueUpdate(a, nm, GetField(incoming[i], nm), r)) = 1
             /\ Count(compared.yielded,
                      LAMBDA r : IsRef("update", a, "ref", incoming[i].ref, r))
                  = (IF ancestor[a].ref # incoming[i].ref THEN 1 ELSE 0)
             /\ \A m \in new \ old :
                  Count(compared.yielded, LAMBDA r : IsRef("add", a, "coll", m, r)) = 1
             /\ \A m \in old \ new :
                  Count(compared.yielded, LAMBDA r : IsRef("remove", a, "coll", m, r)) = 1
             /\ About(a) = Cardinality(differing)
                            + (IF ancestor[a].ref # incoming[i].ref THEN 1 ELSE 0)
                            + Cardinality(new \ old) + Cardinality(old \ new)
             /\ About(i) = 0

\* the style sheet was replaced by one of another name under a new
\* identifier, and the only record about it is the ValueChange of the name
C11_Witness ==
  \E a \in DOMAIN ancestor : \E i \in DOMAIN incoming :
    /\ SheetReplaced(a, i)
    /\ ancestor[a].name = StrV("s") /\ incoming[i].name = StrV("t")
    /\ About(a) = 1
    /\ \E j \in DOMAIN compared.yielded :
         IsValueUpdate(a, "name", StrV("t"), compared.yielded[j])

\* the style sheet was replaced by an identical one under a new identifier
C11_SameSheet ==
  \E a \in DOMAIN ancestor : \E i \in DOMAIN incoming :
    /\ SheetReplaced(a, i)
    /\ ancestor[a].name = incoming[i].name
    /\ compared.yielded = <<>>

----------------------------------------------------------------------------
(* What compare writes *)

\* the step is one call of compare
CompareStep == ~compared.done /\ compared'.done

\* C12: the records compare returns are new nodes of the current store,
\* appended to what it held; a compare adds nothing else to current and
\* keeps every node current held; ancestor and incoming keep their
\* identifiers and the property values of all their nodes
C12_CompareFrame ==
  [][CompareStep =>
       /\ current' = current \o compared'.yielded
       /\ ancestor' = ancestor
       /\ incoming' = incoming]_vars

\* a completed compare that returned records into a current store that was
\* not empty, for an incoming model that differs from its ancestor
C12_Witness ==
  /\ Completed
  /\ compared.before # <<>> /\ compared.yielded # <<>>
  /\ Len(current) = Len(compared.before) + Len(compared.yielded)
  /\ incoming # ancestor

----------------------------------------------------------------------------
(* Paste of a bundle that names nodes which are gone *)

\* the identifiers a bundle entry names under a property
RefsOf(k, nm) ==
  LET data == DictGet(clipboard.elements, k).data
  IN IF ~DictHas(data, nm) THEN {}
     ELSE IF DictGet(data, nm).tag = "r" THEN {DictGet(data, nm).id}
     ELSE {DictGet(data, nm).items[j].id : j \in DOMAIN DictGet(data, nm).items}

\* absent from the bundle, from the target store and from the target diagram
Absent(x) ==
  /\ x \notin BundleKeys \cup clipboard.diagram_refs
  /\ x \notin DOMAIN pasted.pre

\* the bundle keys paste created a node for
CreatedKeys == {k \in BundleKeys : DictHas(pasted.new, k) /\ NewOf(k) \in Created}

\* the references to absent identifiers are dropped from the created nodes
AbsentDropped ==
  \A k \in CreatedKeys :
    /\ (\E x \in RefsOf(k, "ref") : Absent(x)) => store[NewOf(k)].ref = 0
    /\ (\E x \in RefsOf(k, "subject") : Absent(x)) => store[NewOf(k)].subject = 0
    /\ \A x \in RefsOf(k, "coll") : Absent(x) => x \notin Range(store[NewOf(k)].coll)
    /\ Len(store[NewOf(k)].coll)
         = Cardinality({x \in RefsOf(k, "coll") : ~Absent(x)})

\* the bundle keys paste neither maps to the target diagram nor, in link
\* mode, resolves to a live node that is no presentation
Materialized(k) ==
  /\ k \in BundleKeys \ clipboard.diagram_refs
  /\ pasted.full \/ ~LiveDefinition(k)

\* C13 as stated: a reference to an absent identifier is dropped, paste does
\* not raise, and a node is created for every entry of the bundle
C13_PartialBundle_AsStated ==
  pasted.done =>
    /\ ~pasted.err
    /\ AbsentDropped
    /\ CreatedKeys = BundleKeys

\* C13 (amended): in either mode paste does not raise; a single reference
\* or a collection member that names an identifier absent from the bundle,
\* the target store and the target diagram is dropped from the pasted node;
\* and paste creates a node for exactly those entries of the bundle that are
\* neither mapped to the target diagram nor, in link mode, resolved to a
\* live node that is no presentation
C13_PartialBundle ==
  pasted.done =>
    /\ ~pasted.err
    /\ AbsentDropped
    /\ CreatedKeys = {k \in BundleKeys : Materialized(k)}

\* a pasted node lost its single reference and another kept one of two
\* collection members, the rest of the bundle being created
C13_Witness ==
  /\ pasted.done /\ ~pasted.err
  /\ copied.gone # {}
  /\ \E k \in CreatedKeys :
       \E x \in RefsOf(k, "ref") \cup RefsOf(k, "coll") \cup RefsOf(k, "subject") :
         /\ Absent(x) /\ x \in copied.gone
         /\ x \notin {store[NewOf(k)].ref, store[NewOf(k)].subject}
                      \cup Range(store[NewOf(k)].coll)
  /\ CreatedKeys = BundleKeys

----------------------------------------------------------------------------
(* One node per bundle entry *)

\* every created node is the node of exactly one bundle key
OneNodePerCreatedKey ==
  /\ Created = {NewOf(k) : k \in CreatedKeys}
  /\ \A j, k \in CreatedKeys : NewOf(j) = NewOf(k) => j = k

\* C15 as stated: a paste creates exactly one node for each key of the
\* bundle, in either mode
C15_OncePerEntry_AsStated ==
  (pasted.done /\ ~pasted.err) =>
    /\ CreatedKeys = BundleKeys
    /\ OneNodePerCreatedKey

\* C15 (amended): a paste creates at most one node per key of the bundle and
\* no other node: exactly one for a key that is neither one of the bundle's
\* diagram_refs nor, in link mode, the id of a live node of the target store
\* that is no presentation, and none for the other keys, whether the outer
\* pass or the resolution of a reference reaches the key first
C15_OncePerEntry ==
  (pasted.done /\ ~pasted.err) =>
    /\ CreatedKeys = {k \in BundleKeys : Materialized(k)}
    /\ OneNodePerCreatedKey
    /\ Cardinality(Created) = Cardinality(CreatedKeys)
    /\ nextId = pasted.pre_nextId + Cardinality(CreatedKeys)

\* the position of a key in the bundle
KeyIndex(k) ==
  CHOOSE j \in DOMAIN clipboard.elements : clipboard.elements[j].key = k

\* a link paste that created the presentation and reused its live subject,
\* and a key that was created while a reference of an earlier key was
\* resolved
C15_Witness ==
  /\ pasted.done /\ ~pasted.err
  /\ \E k \in PresentationKeys :
       /\ k \in CreatedKeys
       /\ SubjectIn(k) \in BundleKeys
       /\ KeyIndex(k) < KeyIndex(SubjectIn(k))
       /\ (pasted.full => SubjectIn(k) \in CreatedKeys)
       /\ (~pasted.full => SubjectIn(k) \notin CreatedKeys)
  /\ Cardinality(Created) = Cardinality(CreatedKeys)

----------------------------------------------------------------------------
(* The calls of postload() *)

\* the calls of postload() on node n during the paste
Postloads(n) ==
  Count(pasted.log, LAMBDA e : e.ev = "postload" /\ e.id = n)

\* the final pass is the last Len(new_elements) calls of the log
FinalPassFrom == Len(pasted.log) - Len(pasted.new) + 1

\* C16: during one paste every created node, plain or presentation, gets
\* postload() twice, once when its own properties are loaded and once in the
\* final pass, and the final pass starts after the properties of all
\* entries are loaded, that is after the first call for every created node
C16_PostloadTwice ==
  (pasted.done /\ ~pasted.err) =>
    \A n \in Created :
      /\ Postloads(n) = 2
      /\ \E i, j \in DOMAIN pasted.log :
           /\ i < FinalPassFrom /\ FinalPassFrom <= j
           /\ pasted.log[i] = [ev |-> "postload", id |-> n]
           /\ pasted.log[j] = [ev |-> "postload", id |-> n]

\* what the code does: two calls for a created plain node, one call, in the
\* final pass, for a created presentation, whose own pass ends with
\* diagram.update
PostloadsAsCoded ==
  (pasted.done /\ ~pasted.err) =>
    \A n \in Created :
      /\ Postloads(n) = (IF store[n].kind = "presentation" THEN 1 ELSE 2)
      /\ \E i, j \in DOMAIN pasted.log :
           /\ i < FinalPassFrom /\ FinalPassFrom <= j
           /\ pasted.log[i] = [ev |-> IF store[n].kind = "presentation"
                                       THEN "update" ELSE "postload",
                                id |-> n]
           /\ pasted.log[j] = [ev |-> "postload", id |-> n]

----------------------------------------------------------------------------
(* The result of paste *)

\* C17: the set paste_link or paste_full returns is exactly the set of the
\* nodes this call created that are presentations on the target diagram; it
\* holds no node that existed before, no node that is no presentation, no
\* node reused in link mode and no presentation created on another diagram
C17_ResultSet ==
  (pasted.done /\ ~pasted.err) =>
    /\ pasted.result = {n \in Created : /\ store[n].kind = "presentation"
                                         /\ store[n].diagram = pasted.target}
    /\ pasted.result \cap DOMAIN pasted.pre = {}
    /\ \A k \in BundleKeys :
         (~pasted.full /\ LiveDefinition(k)) => k \notin pasted.result

\* a paste that returned a presentation while it also created a node that is
\* no presentation and a presentation on another diagram, and resolved a
\* key of the bundle to the target diagram
C17_Witness ==
  /\ pasted.done /\ ~pasted.err
  /\ pasted.result # {}
  /\ clipboard.diagram_refs \cap BundleKeys # {}
  /\ \E n \in Created : store[n].kind # "presentation"
  /\ \E n \in Created : /\ store[n].kind = "presentation"
                         /\ store[n].diagram # pasted.target
                         /\ n \notin pasted.result

----------------------------------------------------------------------------
(* What paste_full leaves alone *)

\* paste_full(copy_full({p}), diagram) for one presentation p
OnePresentationPasted(p) ==
  /\ FullPasted
  /\ copied.items = <<p>>
  /\ p \in PresentationKeys

\* the parent the bundle records for p (0: none)
ParentIn(p) == DictGet(clipboard.elements, p).parent

C18_NestedPasted ==
  \E p \in BundleKeys :
    /\ OnePresentationPasted(p)
    /\ ParentIn(p) \in DOMAIN pasted.pre
    /\ store[ParentIn(p)].children # pasted.pre[ParentIn(p)].children

----------------------------------------------------------------------------
(* Full paste of one plain node that references another *)

\* paste_full(copy_full({n})) into the store that still holds n and the
\* plain node v it references
OneReferrerPasted(n, v) ==
  /\ FullPasted
  /\ copied.items = <<n>>
  /\ {n, v} \subseteq DOMAIN pasted.pre
  /\ pasted.pre[n].kind = "element" /\ pasted.pre[v].kind = "element"
  /\ pasted.pre[n].ref = v
  /\ RefsOf(n, "ref") = {v}

SameScalars(a, b) == a.name = b.name /\ a.count = b.count /\ a.flag = b.flag

C19_OwnedValueCopied ==
  \E n, v \in DOMAIN pasted.pre :
    /\ OneReferrerPasted(n, v) /\ copied.lookup
    /\ n # v /\ v \in BundleKeys
    /\ store[NewOf(n)].ref \in Created

----------------------------------------------------------------------------
(* The transport *)

Recognized(ser) == ser.tag \in {"v", "r", "c"}

\* C14: deserialize of a payload whose tag is none of the three recognized
\* tags raises instead of yielding a result, and a paste of a bundle that
\* holds such a payload ends with that exception
C14_MalformedIsFatal ==
  /\ (wire.stage = "read" /\ ~Recognized(wire.sa)) => wire.out.raised
  /\ (wire.stage = "bundled" /\ ~Recognized(wire.sa) /\ pasted.done) => pasted.err

\* what the code does with an unrecognized tag: deserialize yields nothing
\* and does not raise, and paste creates the node without the property
MalformedIsIgnored ==
  /\ (wire.stage = "read" /\ ~Recognized(wire.sa))
       => (wire.out.values = <<>> /\ ~wire.out.raised)
  /\ (wire.stage = "bundled" /\ ~Recognized(wire.sa) /\ pasted.done)
       => (~pasted.err /\ Created = {NewOf(9)}
           /\ store[NewOf(9)] = NewNode("Class"))

\* C20: serialize maps a node to ("r", id), a collection to ("c", the
\* payloads of its members in order) and any other value to ("v", its
\* string form), a boolean in its boolean form, so that a boolean and an
\* integer never get the same payload
C20_SerializeTags ==
  (wire.stage \in {"sent", "read", "bundled"} /\ ~wire.garbled) =>
    /\ wire.a.k = "ref" => wire.sa = SerR(wire.a.id)
    /\ wire.a.k = "coll" =>
         wire.sa = SerC([j \in DOMAIN wire.a.ids |-> SerR(wire.a.ids[j])])
    /\ wire.a.k = "scalar" => wire.sa = SerV(PyStr(wire.a.v))
    /\ (wire.a.k = "scalar" /\ {wire.a.v.t, wire.b.v.t} = {"bool", "int"})
         => wire.sa # wire.sb

\* what the code does: a boolean is sent as the string form of the integer
\* it equals, every other value as stated
SerializeAsCoded ==
  (wire.stage \in {"sent", "read", "bundled"} /\ ~wire.garbled) =>
    /\ wire.a.k = "ref" => wire.sa = SerR(wire.a.id)
    /\ wire.a.k = "coll" =>
         wire.sa = SerC([j \in DOMAIN wire.a.ids |-> SerR(wire.a.ids[j])])
    /\ (wire.a.k = "scalar" /\ wire.a.v.t # "bool") => wire.sa = SerV(PyStr(wire.a.v))
    /\ (wire.a.k = "scalar" /\ wire.a.v.t = "bool")
         => wire.sa = SerV(ToString(wire.a.v.n))

----------------------------------------------------------------------------
(* The precedence of element_lookup *)

\* the rule that decides a call element_lookup(ref), given the keys
\* new_elements held when the call was made
RuleOf(ref, known) ==
  CASE ref \in clipboard.diagram_refs -> 1
    [] ref \in known -> 2
    [] ~pasted.full /\ LiveDefinition(ref) -> 3
    [] ref \in BundleKeys -> 4
    [] pasted.full /\ LiveDefinition(ref) -> 5
    [] OTHER -> 6

\* what the rule makes the call return
ResultOf(rule, ref) ==
  CASE rule = 1 -> pasted.target
    [] rule = 2 -> NewOf(ref)
    [] rule = 3 -> ref
    [] rule = 4 -> NewOf(ref)
    [] rule = 5 -> ref
    [] OTHER -> DiagramLookup(pasted.pre, pasted.target, ref)

\* the calls of element_lookup that a rule decided
CallsBy(rule) ==
  {j \in DOMAIN pasted.lookups :
     RuleOf(pasted.lookups[j].ref, pasted.lookups[j].known) = rule}

\* C21: every call element_lookup(ref) of a paste returns what the first
\* applicable rule of this list gives: (1) the target diagram for an id of
\* diagram_refs, in both modes, whatever else the id resolves to; (2) the
\* memoized node for an id resolved before; (3) in link mode the live node
\* of the target store that is no presentation; (4) the node created from
\* the bundle entry, created by this call; (5) in full mode the live node
\* that is no presentation; (6) the item the target diagram's lookup
\* finds, or nothing
C21_LookupPrecedence ==
  (pasted.done /\ ~pasted.err) =>
    \A j \in DOMAIN pasted.lookups :
      LET call == pasted.lookups[j]
          rule == RuleOf(call.ref, call.known)
      IN /\ call.res = ResultOf(rule, call.ref)
         /\ rule = 4 => /\ call.res \in Created
                         /\ \A i \in CallsBy(4) \ {j} :
                              pasted.lookups[i].res # call.res
         /\ rule \in {3, 5} => ~DictHas(pasted.new, call.ref)
         /\ rule = 6 => call.res \in {0, call.ref}

\* a link paste whose calls met an id of diagram_refs that is also a key of
\* the bundle and a live diagram, a live definition that is also a key of
\* the bundle, and a key that had to be created
C21_Witness ==
  /\ pasted.done /\ ~pasted.err /\ ~pasted.full
  /\ \E j \in CallsBy(1) :
       /\ pasted.lookups[j].ref \in BundleKeys
       /\ pasted.lookups[j].ref \in DOMAIN pasted.pre
       /\ pasted.lookups[j].ref # pasted.target
  /\ \E j \in CallsBy(3) : pasted.lookups[j].ref \in BundleKeys
  /\ CallsBy(4) # {}

\* a full paste whose calls met a memoized id, a live definition without a
\* bundle entry, and an id that nothing resolves
C21_FullFallbacks ==
  /\ pasted.done /\ ~pasted.err /\ pasted.full
  /\ CallsBy(2) # {} /\ CallsBy(5) # {}
  /\ \E j \in CallsBy(6) : pasted.lookups[j].res = 0

\* a paste that found the parent through the target diagram's lookup
C21_DiagramLookup ==
  /\ pasted.done /\ ~pasted.err
  /\ \E j \in CallsBy(6) : pasted.lookups[j].res # 0

----------------------------------------------------------------------------
(* The typing of a ValueChange *)

\* the ValueChange records about a scalar of an element of incoming that is
\* no style sheet: the new value is the one incoming holds
TypedRecords ==
  {j \in DOMAIN compared.yielded :
     /\ compared.yielded[j].rec = "ValueChange"
     /\ compared.yielded[j].property_name \in {"name", "count", "flag"}
     /\ compared.yielded[j].element_id \in DOMAIN incoming
     /\ ~IsStyleSheet(incoming, compared.yielded[j].element_id)}

NewValueOf(r) == GetField(incoming[r.element_id], r.property_name)

\* (property_value, property_type) as the typing rules give them
TypedAsStated(v) ==
  IF v = Unlimited THEN <<Text("*"), Text("UnlimitedNatural")>>
  ELSE <<TextOf(v), TagOf(v)>>

\* C22: the ValueChange of a changed scalar carries (null, null) for a new
\* value of null, (the string, "str") for a string, (the str() of the
\* boolean, "bool") for a boolean, (the str() of the integer, "int") for an
\* integer and ("*", "UnlimitedNatural") for the unlimited token
C22_ValueChangeTyping ==
  Completed =>
    \A j \in TypedRecords :
      LET r == compared.yielded[j]
      IN <<r.property_value, r.property_type>> = TypedAsStated(NewValueOf(r))

\* what the code does: the unlimited token is a string and is tagged "str"
TypingAsCoded ==
  Completed =>
    \A j \in TypedRecords :
      LET r == compared.yielded[j]
      IN /\ r.property_value = TextOf(NewValueOf(r))
         /\ r.property_type = TagOf(NewValueOf(r))
         /\ r.property_type # Text("UnlimitedNatural")

\* compare reported a count that became the unlimited token, and one
\* record of each other typing rule was yielded in some run
UnlimitedReported ==
  /\ Completed
  /\ \E j \in TypedRecords : NewValueOf(compared.yielded[j]) = Unlimited
TypedRulesReported ==
  /\ Completed
  /\ \A t \in {"none", "bool"} :
       \E j \in TypedRecords : NewValueOf(compared.yielded[j]).t = t

----------------------------------------------------------------------------
(* The diff of a single reference *)

\* the elements whose properties compare diffs against the ancestor's, or
\* against nothing for an added element; a style sheet is diffed apart
Diffed == {x \in DOMAIN incoming : ~IsStyleSheet(incoming, x)}

AncestorRef(x) == IF x \in DOMAIN ancestor THEN ancestor[x].ref ELSE 0

RecordsAbout(x, nm) ==
  Count(compared.yielded, LAMBDA r : r.element_id = x /\ r.property_name = nm)

\* C23: for the single reference of an element, compare yields exactly one
\* RefChange(update) carrying the new referenced id when that id differs
\* from the ancestor's or the ancestor had none, no record when both sides
\* reference the same id or neither references anything, and exactly one
\* RefChange(update) with no property_ref, and no ValueChange, when the
\* ancestor held a reference and incoming holds none
C23_SingleReferenceDiff ==
  Completed =>
    \A x \in Diffed :
      LET av == AncestorRef(x)
          iv == incoming[x].ref
      IN IF iv = av THEN RecordsAbout(x, "ref") = 0
         ELSE /\ RecordsAbout(x, "ref") = 1
              /\ Count(compared.yielded,
                       LAMBDA r : IsRef("update", x, "ref", iv, r)) = 1

\* one run of compare met a reference that was cleared and an element that
\* gained a reference the ancestor did not hold
C23_Witness ==
  /\ Completed
  /\ \E x \in Diffed :
       /\ AncestorRef(x) # 0 /\ incoming[x].ref = 0
       /\ \E j \in DOMAIN compared.yielded :
            IsRef("update", x, "ref", 0, compared.yielded[j])
  /\ \E x \in Diffed :
       /\ AncestorRef(x) = 0 /\ incoming[x].ref # 0
       /\ RecordsAbout(x, "ref") = 1

\* a reference that moved to another element; a reference left alone while
\* another property of the element changed
C23_ReferenceMoved ==
  /\ Completed
  /\ \E x \in Diffed :
       /\ AncestorRef(x) # 0 /\ incoming[x].ref \notin {0, AncestorRef(x)}
       /\ RecordsAbout(x, "ref") = 1
C23_ReferenceKept ==
  /\ Completed
  /\ \E x \in Diffed :
       /\ AncestorRef(x) # 0 /\ incoming[x].ref = AncestorRef(x)
       /\ incoming[x] # ancestor[x]

----------------------------------------------------------------------------
(* The current store is written, never read *)

\* the records a run of compare over the same ancestor and incoming yields
\* when the current store holds cur
YieldedWith(cur) ==
  created(cur, compare(ancestor, incoming, compared.order).yielded)

====
